---- MODULE Spec2Model ----
(***************************************************************************)
(* Model of speeches/acoustic.py: the AcousticDataset adapter.             *)
(*                                                                         *)
(* normalize(text, speech) labels the text and computes the mel            *)
(* spectrogram; collate(bunch) pads the examples of a bunch and stacks     *)
(* them into a batch.  numpy arrays are records [shape, data]; the numpy   *)
(* routines the code calls (np.array, np.pad, np.stack, ndarray.T,         *)
(* ndarray.max) are operators that return or raise as numpy does.          *)
(***************************************************************************)
EXTENDS Integers, Sequences, FiniteSets, TLC

\* ------------------------------------------------------------------ bounds
\* Largest number of examples in a bunch handed to collate.
MaxBunch == 2
\* Largest number of labels of one example.
MaxTextLen == 1
\* Largest number of frames of one example's mel spectrogram.
MaxMelLen == 1
\* Largest number of characters of a transcription handed to normalize.
MaxChars == 1
\* Largest number of samples of a waveform handed to normalize.
MaxSamples == 2

\* Label values, feature dimensions and sample values of the inputs.
LabelVals == {3, 5}
MelDims == {1, 2}
FrameVals == {1}
SampleVals == {1}
Chars == {"a", "b", "?"}
Configs == {[hop |-> 1, mel |-> 2], [hop |-> 2, mel |-> 1]}

\* --------------------------------------------------------------- outcomes
\* What a call produces: a returned value or a raised exception.
Returned(v) == [status |-> "returned", value |-> v, error |-> "none"]
Raised(e) == [status |-> "raised", value |-> <<>>, error |-> e]
NoOutcome == [status |-> "none", value |-> <<>>, error |-> "none"]

SeqsUpTo(S, n) == UNION {[1..k -> S] : k \in 0..n}

\* ------------------------------------------------------------------ numpy
Zeros(n) == [i \in 1..n |-> 0]

\* ndarray of rank 1 from a Python list of integers.
NpArrayLong(list) == [shape |-> <<Len(list)>>, data |-> list]

\* len(x) of an ndarray: the size of its first axis.
PyLen(a) == a.shape[1]

\* A max() that answers the number of elements.
NpMaxCount(a) == Len(a.data)

\* a.max() of a non-empty rank-1 array.
NpMax(a) == CHOOSE m \in {a.data[i] : i \in 1..Len(a.data)} :
                \A i \in 1..Len(a.data) : a.data[i] <= m

\* np.pad(a, [0, after]) on a rank-1 array: constant mode, zeros.
NpPad1(a, after) ==
    IF after < 0
    THEN Raised("ValueError: index can't contain negative values")
    ELSE Returned([shape |-> <<a.shape[1] + after>>,
                   data |-> a.data \o Zeros(after)])

\* np.pad(a, [[0, after], [0, 0]]) on a rank-2 array: zero frames appended.
NpPad2(a, after) ==
    IF after < 0
    THEN Raised("ValueError: index can't contain negative values")
    ELSE Returned([shape |-> <<a.shape[1] + after, a.shape[2]>>,
                   data |-> a.data \o [i \in 1..after |-> Zeros(a.shape[2])]])

\* A stack that compares the first axis only.
NpStackFirstAxis(arrays) ==
    IF arrays = <<>>
    THEN Raised("ValueError: need at least one array to stack")
    ELSE IF \E i \in 1..Len(arrays) : arrays[i].shape[1] # arrays[1].shape[1]
    THEN Raised("ValueError: all input arrays must have the same shape")
    ELSE Returned([shape |-> <<Len(arrays)>> \o arrays[1].shape,
                   data |-> [i \in 1..Len(arrays) |-> arrays[i].data]])

\* np.stack(arrays): a new leading axis; every array must have one shape.
NpStack(arrays) ==
    IF arrays = <<>>
    THEN Raised("ValueError: need at least one array to stack")
    ELSE IF \E i \in 1..Len(arrays) : arrays[i].shape # arrays[1].shape
    THEN Raised("ValueError: all input arrays must have the same shape")
    ELSE Returned([shape |-> <<Len(arrays)>> \o arrays[1].shape,
                   data |-> [i \in 1..Len(arrays) |-> arrays[i].data]])

\* The outcome of a list comprehension whose elements are outcomes: the
\* first raised one, in list order, or the list of the values.
Comprehension(outs) ==
    IF \E i \in 1..Len(outs) : outs[i].status = "raised"
    THEN outs[CHOOSE i \in 1..Len(outs) :
                /\ outs[i].status = "raised"
                /\ \A j \in 1..(i - 1) : outs[j].status # "raised"]
    ELSE Returned([i \in 1..Len(outs) |-> outs[i].value])

\* ----------------------------------------------------------- collaborators
\* TextNormalizer.GRAPHEMES: the supported characters, in label order.
GRAPHEMES == <<"a", "b">>

\* TextNormalizer.labeling(text): the label of every character, label 0
\* being reserved; a character outside GRAPHEMES is a failure.
Labeling(text) ==
    IF \E i \in 1..Len(text) : \A k \in 1..Len(GRAPHEMES) : GRAPHEMES[k] # text[i]
    THEN Raised("TextNormalizer: unsupported character")
    ELSE Returned([i \in 1..Len(text) |->
                     CHOOSE k \in 1..Len(GRAPHEMES) : GRAPHEMES[k] = text[i]])

RECURSIVE SumRange(_, _, _)
SumRange(s, lo, hi) == IF lo > hi THEN 0 ELSE s[lo] + SumRange(s, lo + 1, hi)

\* MelSTFT(config)(speech): [T // hop, mel] features of a rank-1 waveform;
\* a waveform of another rank is a failure.
MelSTFT(stft, speech) ==
    IF Len(speech.shape) # 1
    THEN Raised("MelSTFT: malformed waveform")
    ELSE LET T == speech.shape[1] \div stft.config.hop
         IN Returned([shape |-> <<T, stft.config.mel>>,
                      data |-> [t \in 1..T |->
                                  [j \in 1..stft.config.mel |->
                                     SumRange(speech.data,
                                              (t - 1) * stft.config.hop + 1,
                                              t * stft.config.hop)]]])

\* ---------------------------------------------------------------- adapter
\* AcousticDataset.__init__: the fields of the constructed adapter.
Construct(rawset, config) ==
    [rawset |-> rawset,
     config |-> config,
     melstft |-> [config |-> config],
     textnorm |-> [graphemes |-> GRAPHEMES]]

\* A normalize that answers a failed transform with an empty mel.
NormalizeOutcomeCatching(self, text, speech) ==
    LET labeled == Labeling(text)
    IN IF labeled.status = "raised" THEN labeled
       ELSE LET labels == NpArrayLong(labeled.value)
                mel == MelSTFT(self.melstft, speech)
            IN IF mel.status = "raised"
               THEN Returned(<<labels, [shape |-> <<0, self.config.mel>>, data |-> <<>>]>>)
               ELSE Returned(<<labels, mel.value>>)

\* AcousticDataset.normalize: labels, then mel; nothing is caught.
NormalizeOutcome(self, text, speech) ==
    LET labeled == Labeling(text)
    IN IF labeled.status = "raised" THEN labeled
       ELSE LET labels == NpArrayLong(labeled.value)
                mel == MelSTFT(self.melstft, speech)
            IN IF mel.status = "raised" THEN mel
               ELSE Returned(<<labels, mel.value>>)

\* Length rows without the transposition's order: mel lengths first.
LengthRowsSwapped(bunch) ==
    IF bunch = <<>> THEN <<>>
    ELSE << [shape |-> <<Len(bunch)>>,
             data |-> [i \in 1..Len(bunch) |-> PyLen(bunch[i][2])]],
            [shape |-> <<Len(bunch)>>,
             data |-> [i \in 1..Len(bunch) |-> PyLen(bunch[i][1])]] >>

\* [[len(labels), len(spec)] for labels, spec in bunch] as an array, .T:
\* the rows of the transposed array (none for the empty array).
LengthRows(bunch) ==
    IF bunch = <<>> THEN <<>>
    ELSE << [shape |-> <<Len(bunch)>>,
             data |-> [i \in 1..Len(bunch) |-> PyLen(bunch[i][1])]],
            [shape |-> <<Len(bunch)>>,
             data |-> [i \in 1..Len(bunch) |-> PyLen(bunch[i][2])]] >>

\* textlen, mellen = rows: exactly two rows unpack.
Unpack2(rows) ==
    IF Len(rows) = 2 THEN Returned(rows)
    ELSE Raised("ValueError: not enough values to unpack")

\* A pad amount one past the batch maximum.
PadAmountOnePast(n, lens) == NpMax(lens) + 1 - n

\* The pad amount the code hands to np.pad for an example of length n.
PadAmount(n, lens) == n - NpMax(lens)

\* collate, lines 63-69: pad every example, stack, return the 4-tuple.
PadAndStack(bunch, textlen, mellen) ==
    LET textpads == Comprehension(
            [i \in 1..Len(bunch) |->
               NpPad1(bunch[i][1], PadAmount(PyLen(bunch[i][1]), textlen))])
    IN IF textpads.status = "raised" THEN textpads
       ELSE
       LET text == NpStack(textpads.value)
       IN IF text.status = "raised" THEN text
          ELSE
          LET melpads == Comprehension(
                  [i \in 1..Len(bunch) |->
                     NpPad2(bunch[i][2], PadAmount(PyLen(bunch[i][2]), mellen))])
          IN IF melpads.status = "raised" THEN melpads
             ELSE
             LET mel == NpStack(melpads.value)
             IN IF mel.status = "raised" THEN mel
                ELSE Returned(<<mel.value, text.value, textlen, mellen>>)

\* A collate that answers an empty bunch with an empty batch.
CollateOutcomeEmptyBatch(bunch) ==
    IF bunch = <<>>
    THEN Returned(<<[shape |-> <<0>>, data |-> <<>>], [shape |-> <<0>>, data |-> <<>>],
                    [shape |-> <<0>>, data |-> <<>>], [shape |-> <<0>>, data |-> <<>>]>>)
    ELSE LET unpacked == Unpack2(LengthRows(bunch))
         IN IF unpacked.status = "raised" THEN unpacked
            ELSE PadAndStack(bunch, unpacked.value[1], unpacked.value[2])

\* AcousticDataset.collate: the lengths (lines 60-62), then the batch.
CollateOutcome(bunch) ==
    LET unpacked == Unpack2(LengthRows(bunch))
    IN IF unpacked.status = "raised" THEN unpacked
       ELSE PadAndStack(bunch, unpacked.value[1], unpacked.value[2])

\* ----------------------------------------------------------------- inputs
Texts == SeqsUpTo(Chars, MaxChars)

\* Waveforms of rank 1, and one array of rank 2.
Speeches ==
    {[shape |-> <<Len(s)>>, data |-> s] : s \in SeqsUpTo(SampleVals, MaxSamples)}
    \cup {[shape |-> <<1, 1>>, data |-> <<<<1>>>>]}

LabelArrays == {NpArrayLong(s) : s \in SeqsUpTo(LabelVals, MaxTextLen)}

Frames(d) == {[j \in 1..d |-> v] : v \in FrameVals}

MelArrays ==
    UNION {{[shape |-> <<Len(r), d>>, data |-> r] : r \in SeqsUpTo(Frames(d), MaxMelLen)}
           : d \in MelDims}

Examples == {<<l, m>> : l \in LabelArrays, m \in MelArrays}

Bunches == SeqsUpTo(Examples, MaxBunch)

\* ------------------------------------------------------------------ state
\* self: the adapter's fields.
\* call: the call in hand on the adapter: op, args and outcome.
\* memo: the first normalize call observed, for comparison with later ones.
VARIABLES self, call, memo

vars == <<self, call, memo>>

NoCall == [op |-> "none", args |-> <<>>, ret |-> NoOutcome]
NoMemo == [set |-> FALSE, args |-> <<>>, ret |-> NoOutcome, stage |-> 0]

Init ==
    /\ self \in {Construct("rawset", c) : c \in Configs}
    /\ call = NoCall
    /\ memo = NoMemo

\* A call of normalize(text, speech).
NormalizeCall(text, speech) ==
    /\ call' = [op |-> "normalize", args |-> <<text, speech>>,
                ret |-> NormalizeOutcome(self, text, speech)]
    /\ UNCHANGED self

\* A collate that stores the batch size as the transform's hop.
CollateCallStoring(bunch) ==
    /\ call' = [op |-> "collate", args |-> <<bunch>>,
                ret |-> CollateOutcome(bunch)]
    /\ self' = [self EXCEPT !.melstft = [config |->
                    [hop |-> Len(bunch) + 1, mel |-> self.config.mel]]]

\* A call of collate(bunch).
CollateCall(bunch) ==
    /\ call' = [op |-> "collate", args |-> <<bunch>>,
                ret |-> CollateOutcome(bunch)]
    /\ UNCHANGED self

\* The calls are synchronous and made by one caller: a call is made when the
\* outcome of the one before has been taken.
Idle == call.op = "none"

\* The caller takes the outcome; arguments and outcome are dropped.
Release ==
    /\ call.op # "none"
    /\ call' = NoCall
    /\ UNCHANGED <<self, memo>>

Normalize(text, speech) == NormalizeCall(text, speech) /\ UNCHANGED memo

Collate(bunch) == CollateCall(bunch) /\ UNCHANGED memo

Next ==
    \/ Idle /\ \E text \in Texts, speech \in Speeches : Normalize(text, speech)
    \/ Idle /\ \E bunch \in Bunches : Collate(bunch)
    \/ Release

Spec == Init /\ [][Next]_vars

\* ------------------------------------------- calls observed over a history
\* Bunches of at most one example.
ShortBunches == SeqsUpTo(Examples, 1)

\* normalize, remembered when it is the first; a repetition of the remembered
\* call after a collate is marked.
ObservedNormalize(text, speech) ==
    /\ NormalizeCall(text, speech)
    /\ memo' = IF ~memo.set
               THEN [set |-> TRUE, args |-> <<text, speech>>,
                     ret |-> call'.ret, stage |-> 0]
               ELSE IF memo.args = <<text, speech>> /\ memo.stage >= 1
               THEN [memo EXCEPT !.stage = 2]
               ELSE memo

\* collate, marked when it follows the remembered normalize.
ObservedCollate(bunch) ==
    /\ CollateCall(bunch)
    /\ memo' = IF memo.set /\ memo.stage = 0
               THEN [memo EXCEPT !.stage = 1]
               ELSE memo

NextObserved ==
    \/ Idle /\ \E text \in Texts, speech \in Speeches : ObservedNormalize(text, speech)
    \/ Idle /\ \E bunch \in ShortBunches : ObservedCollate(bunch)
    \/ Release

SpecObserved == Init /\ [][NextObserved]_vars

\* ----------------------------------------------- vocabulary of the claims
IsCollate == call.op = "collate"
IsNormalize == call.op = "normalize"
HasReturned == call.ret.status = "returned"
HasRaised == call.ret.status = "raised"

\* The bunch of the collate call and its size B.
Bunch == call.args[1]
B == Len(Bunch)

\* The labels and the mel of example i of the bunch, and their true lengths.
LabelsOf(i) == Bunch[i][1]
MelOf(i) == Bunch[i][2]
TrueTextLen(i) == LabelsOf(i).shape[1]
TrueMelLen(i) == MelOf(i).shape[1]
MelDimOf(i) == MelOf(i).shape[2]

UniformMelDim == \A i, j \in 1..B : MelDimOf(i) = MelDimOf(j)

\* The largest true lengths of the bunch (of a non-empty bunch).
LongestText == CHOOSE m \in {TrueTextLen(i) : i \in 1..B} :
                   \A i \in 1..B : TrueTextLen(i) <= m
LongestMel == CHOOSE m \in {TrueMelLen(i) : i \in 1..B} :
                  \A i \in 1..B : TrueMelLen(i) <= m

\* The members of the returned 4-tuple.
MelBatch == call.ret.value[1]
TextBatch == call.ret.value[2]
TextLenOut == call.ret.value[3]
MelLenOut == call.ret.value[4]

\* The widths of the batch along the padded axes.
SMax == TextBatch.shape[2]
TMax == MelBatch.shape[2]

\* Row i of the text batch is the labels of example i followed by zeros, and
\* row i of the mel batch is the frames of example i followed by zero frames.
TextRowPadded(i) ==
    /\ TrueTextLen(i) <= Len(TextBatch.data[i])
    /\ SubSeq(TextBatch.data[i], 1, TrueTextLen(i)) = LabelsOf(i).data
    /\ \A k \in (TrueTextLen(i) + 1)..Len(TextBatch.data[i]) :
          TextBatch.data[i][k] = 0
MelRowPadded(i) ==
    /\ TrueMelLen(i) <= Len(MelBatch.data[i])
    /\ SubSeq(MelBatch.data[i], 1, TrueMelLen(i)) = MelOf(i).data
    /\ \A k \in (TrueMelLen(i) + 1)..Len(MelBatch.data[i]) :
          MelBatch.data[i][k] = Zeros(MelDimOf(i))

\* --------------------------------------------------------------------- C1
\* C1: for every non-empty bunch of B pairs with a uniform mel_dim, collate
\* returns a 4-tuple (mel_batch, text_batch, textlen, mellen) with mel_batch of
\* shape (B, max(mellen), mel_dim) and text_batch of shape (B, max(textlen)).
Claim_C1_ShapesForEveryBunch ==
    (IsCollate /\ B > 0 /\ UniformMelDim) =>
        /\ HasReturned
        /\ Len(call.ret.value) = 4
        /\ MelBatch.shape = <<B, LongestMel, MelDimOf(1)>>
        /\ TextBatch.shape = <<B, LongestText>>

\* --------------------------------------------------------------------- C2
\* C2: for every non-empty bunch and every example i, row i of text_batch is
\* labels_i followed by zeros only, and row i of mel_batch is mel_i followed
\* by zero frames only.
Claim_C2_PaddingForEveryBunch ==
    (IsCollate /\ B > 0 /\ UniformMelDim) =>
        /\ HasReturned
        /\ \A i \in 1..B : TextRowPadded(i) /\ MelRowPadded(i)

Thm_C4_EmptyBunchRaises ==
    (IsCollate /\ B = 0) => (HasRaised /\ call.ret.value = <<>>)

Wit_C4_EmptyBunchCalled == IsCollate /\ B = 0 /\ HasRaised

\* --------------------------------------------------------------------- C5
\* C5 as stated: in every batch collate produces, exactly one example has
\* textlen = S_max, at least one has mellen = T_max, and no example's content
\* is truncated.
Claim_C5_ExactlyOneLongest ==
    (IsCollate /\ HasReturned) =>
        /\ Cardinality({i \in 1..B : TextLenOut.data[i] = SMax}) = 1
        /\ \E i \in 1..B : MelLenOut.data[i] = TMax
        /\ \A i \in 1..B : TextRowPadded(i) /\ MelRowPadded(i)

\* C5 amended: in every batch collate produces, at least one example has
\* textlen = S_max, at least one has mellen = T_max, and no example's content
\* is truncated.
Thm_C5_MaximaRealized ==
    (IsCollate /\ HasReturned) =>
        /\ \E i \in 1..B : TextLenOut.data[i] = SMax
        /\ \E i \in 1..B : MelLenOut.data[i] = TMax
        /\ \A i \in 1..B : TextRowPadded(i) /\ MelRowPadded(i)

\* A returned batch of two examples with content.
Wit_C5_BatchOfTwo ==
    /\ IsCollate /\ HasReturned /\ B = 2
    /\ SMax > 0 /\ TMax > 0

\* --------------------------------------------------------------------- C6
\* C6: collate of a bunch of one example returns, S_max and T_max are the
\* example's own lengths, and the rows are the example's labels and mel.
Thm_C6_SingleExample ==
    (IsCollate /\ B = 1) =>
        /\ HasReturned
        /\ SMax = TextLenOut.data[1] /\ SMax = TrueTextLen(1)
        /\ TMax = MelLenOut.data[1] /\ TMax = TrueMelLen(1)
        /\ TextBatch.data[1] = LabelsOf(1).data
        /\ MelBatch.data[1] = MelOf(1).data

Wit_C6_SingleExample ==
    /\ IsCollate /\ B = 1 /\ HasReturned
    /\ TrueTextLen(1) > 0 /\ TrueMelLen(1) > 0

\* --------------------------------------------------------------------- C7
\* C7: collate raises, and returns no batch, whenever two mel examples of the
\* bunch differ in mel_dim, whatever the lengths of the examples.
Thm_C7_MelDimMismatchRaises ==
    (IsCollate /\ ~UniformMelDim) => (HasRaised /\ call.ret.value = <<>>)

\* A bunch whose lengths all agree and whose mel_dims do not.
Wit_C7_MismatchEqualLengths ==
    /\ IsCollate /\ ~UniformMelDim /\ HasRaised
    /\ \A i, j \in 1..B : /\ TrueTextLen(i) = TrueTextLen(j)
                          /\ TrueMelLen(i) = TrueMelLen(j)
    /\ TrueMelLen(1) > 0

\* -------------------------------------------------------------------- C10
\* C10: the pad amounts collate hands to the padding routine are never
\* negative, and collate raises only for an empty bunch or an inconsistent
\* mel_dim: every non-empty bunch of uniform mel_dim gets a batch.
Claim_C10_PadAmountsNonNegative ==
    IsCollate =>
        /\ B > 0 =>
              \A i \in 1..B :
                 /\ PadAmount(TrueTextLen(i), LengthRows(Bunch)[1]) >= 0
                 /\ PadAmount(TrueMelLen(i), LengthRows(Bunch)[2]) >= 0
        /\ HasRaised => (B = 0 \/ ~UniformMelDim)

\* --------------------------------------------------------------------- C8
\* C8: normalize fails exactly as the Text Normalizer's labeling fails, or,
\* the labeling having succeeded, exactly as the Spectrogram Transform fails,
\* and returns no pair then; when both succeed it returns (labels, mel), the
\* labeling of the text and the transform of the waveform.
Thm_C8_NormalizePropagates ==
    IsNormalize =>
        LET labeled == Labeling(call.args[1])
            mel == MelSTFT(self.melstft, call.args[2])
        IN /\ labeled.status = "raised" =>
                 /\ HasRaised /\ call.ret.error = labeled.error
                 /\ call.ret.value = <<>>
           /\ (labeled.status = "returned" /\ mel.status = "raised") =>
                 /\ HasRaised /\ call.ret.error = mel.error
                 /\ call.ret.value = <<>>
           /\ (labeled.status = "returned" /\ mel.status = "returned") =>
                 /\ HasReturned
                 /\ call.ret.value = <<NpArrayLong(labeled.value), mel.value>>
           /\ HasRaised => call.ret.error \in
                 {"TextNormalizer: unsupported character", "MelSTFT: malformed waveform"}

\* normalize called on a supported text and a malformed waveform.
Wit_C8_TransformFailed ==
    /\ IsNormalize /\ HasRaised
    /\ Len(call.args[1]) > 0
    /\ Labeling(call.args[1]).status = "returned"
    /\ call.ret.error = "MelSTFT: malformed waveform"

\* --------------------------------------------------------------------- C9
\* C9: no call of normalize or collate changes the adapter's fields, and a
\* normalize call on the arguments of an earlier normalize call has the
\* outcome of the earlier call, whatever was called in between.
Thm_C9_StateUnchanged ==
    [][ /\ self' = self
        /\ (call.op = "none" /\ call'.op = "normalize"
              /\ memo.set /\ call'.args = memo.args)
           => call'.ret = memo.ret ]_vars

\* normalize repeated on the remembered arguments after a collate call, with
\* a pair returned.
Wit_C9_RepeatedAfterCollate ==
    /\ IsNormalize /\ HasReturned
    /\ memo.stage = 2 /\ call.args = memo.args
    /\ call.ret.value[2].shape[1] > 0

====
